---- MODULE Spec2Model ----
(***************************************************************************)
(* Natural-language calendar requests: the two extractors                  *)
(* (NLU_with_OpenAI.extract_event, app.extract_event with its date         *)
(* correction and rule-based fallback) and the mapper to_gcal_event.       *)
(*                                                                         *)
(* Python values are tagged records, so that values of different Python    *)
(* types can be compared: StrV("x"), IntV(3), BoolV(TRUE), ListV(<<..>>),  *)
(* None, and Obj(<< <<k1, v1>>, ..., <<kn, vn>> >>) for the dict           *)
(* {k1: v1, ..., kn: vn}.  A dict value holds the mapping (dict) and the   *)
(* order its keys were set in (order), which is the order Python walks it  *)
(* in.  Text is a TLA+ string, read character by character with SubSeq.    *)
(***************************************************************************)
EXTENDS Integers, Sequences, FiniteSets, TLC

VARIABLES pc, strategy, utterance, outcome, clock, nlu, event

vars == <<pc, strategy, utterance, outcome, clock, nlu, event>>

(***************************************************************************)
(* Python values                                                           *)
(***************************************************************************)
None == [none |-> TRUE]
StrV(s) == [str |-> s]
IntV(n) == [int |-> n]
BoolV(b) == [bool |-> b]
ListV(l) == [list |-> l]

\* The keys of a sequence of <<key, value>> pairs, each at its first place.
KeyOrder(pairs) ==
  LET firsts == {i \in 1..Len(pairs) : \A j \in 1..(i - 1) : pairs[j][1] # pairs[i][1]}
  IN  [n \in 1..Cardinality(firsts) |->
         pairs[CHOOSE i \in firsts : Cardinality({j \in firsts : j <= i}) = n][1]]

\* The dict a display {k1: v1, ..., kn: vn} builds (as json.loads does from an
\* object): a key set twice keeps its first place and its last value.
Obj(pairs) ==
  [dict |-> [k \in {pairs[i][1] : i \in 1..Len(pairs)} |->
               pairs[CHOOSE i \in 1..Len(pairs) :
                       /\ pairs[i][1] = k
                       /\ \A j \in (i + 1)..Len(pairs) : pairs[j][1] # k][2]],
   order |-> KeyOrder(pairs)]

EmptyDict == Obj(<<>>)

IsNone(v) == "none" \in DOMAIN v
IsStr(v) == "str" \in DOMAIN v
IsInt(v) == "int" \in DOMAIN v
IsBool(v) == "bool" \in DOMAIN v
IsList(v) == "list" \in DOMAIN v
IsDict(v) == "dict" \in DOMAIN v

\* bool(v): None, False, "", 0, [] and {} are false, everything else is true.
Truthy(v) ==
  CASE IsNone(v) -> FALSE
    [] IsBool(v) -> v.bool
    [] IsStr(v) -> v.str # ""
    [] IsInt(v) -> v.int # 0
    [] IsList(v) -> v.list # <<>>
    [] IsDict(v) -> v.order # <<>>

\* d.get(k, default) on a dict's mapping.
Get(d, k, default) == IF k \in DOMAIN d THEN d[k] ELSE default

\* d[k] = x: a new key goes last, a key already set keeps its place.
SetItem(v, k, x) ==
  IF k \in DOMAIN v.dict THEN [v EXCEPT !.dict[k] = x]
  ELSE [dict |-> (k :> x) @@ v.dict, order |-> Append(v.order, k)]

(***************************************************************************)
(* Text                                                                    *)
(***************************************************************************)
\* s[i-1:j] of Python: the characters i..j of s that exist.
Slice(s, i, j) ==
  SubSeq(s, IF i < 1 THEN 1 ELSE i, IF j > Len(s) THEN Len(s) ELSE j)

At(s, i) == Slice(s, i, i)

Digits == "0123456789"
DigitChars == {At(Digits, i) : i \in 1..10}
IsDigits(s) == \A i \in 1..Len(s) : At(s, i) \in DigitChars
DigitVal(c) == CHOOSE k \in 0..9 : At(Digits, k + 1) = c
ToDigit(k) == At(Digits, k + 1)

RECURSIVE ParseNat(_)
ParseNat(s) ==
  IF s = "" THEN 0
  ELSE 10 * ParseNat(Slice(s, 1, Len(s) - 1)) + DigitVal(At(s, Len(s)))

\* The text without its underscores.
RECURSIVE WithoutUnderscores(_)
WithoutUnderscores(s) ==
  IF s = "" THEN ""
  ELSE (IF At(s, 1) = "_" THEN "" ELSE At(s, 1)) \o WithoutUnderscores(Tail(s))

\* The whitespace int() drops around the literal of a str: space, tab, line
\* feed, vertical tab, form feed, carriage return, and of the characters past
\* ASCII that a string here can hold, next line (U+0085) and no-break space
\* (U+00A0).  The separators U+001C..U+001F are kept, as int() keeps them.
IntWhitespace == {" ", "\t", "\n", "\r", "\f", "", "", " "}

\* s without the whitespace int() drops at its two ends.
RECURSIVE IntStrip(_)
IntStrip(s) ==
  IF s = "" THEN ""
  ELSE IF At(s, 1) \in IntWhitespace THEN IntStrip(Tail(s))
  ELSE IF At(s, Len(s)) \in IntWhitespace THEN IntStrip(Slice(s, 1, Len(s) - 1))
  ELSE s

\* The characters past ASCII that a string here can hold, U+0080..U+00FF:
\* each takes two bytes in UTF-8.
Latin1High == " ¡¢£¤¥¦§¨©ª«¬­®¯°±²³´µ¶·¸¹º»¼½¾¿ÀÁÂÃÄÅÆÇÈÉÊËÌÍÎÏÐÑÒÓÔÕÖ×ØÙÚÛÜÝÞßàáâãäåæçèéêëìíîïðñòóôõö÷øùúûüýþÿ"
NonAscii == {At(Latin1High, i) : i \in 1..Len(Latin1High)}

\* s as the UTF-8 buffer C code reads: one position per byte, a character
\* past ASCII standing at both of its bytes.
RECURSIVE Utf8(_)
Utf8(s) ==
  IF s = "" THEN ""
  ELSE (IF At(s, 1) \in NonAscii THEN At(s, 1) \o At(s, 1) ELSE At(s, 1))
       \o Utf8(Tail(s))

\* "%d" of a natural number.
RECURSIVE Decimal(_)
Decimal(n) == IF n < 10 THEN ToDigit(n) ELSE Decimal(n \div 10) \o ToDigit(n % 10)

\* "%02d", "%04d", "%06d" of a natural number.
RECURSIVE Pad(_, _)
Pad(n, width) ==
  IF width = 0 THEN "" ELSE Pad(n \div 10, width - 1) \o ToDigit(n % 10)

\* sub in s
Contains(s, sub) ==
  \E i \in 1..(Len(s) - Len(sub) + 1) : Slice(s, i, i + Len(sub) - 1) = sub

\* The characters str.lower() changes, of those a string here can hold, and
\* what it changes each to.
Upper == "ABCDEFGHIJKLMNOPQRSTUVWXYZÀÁÂÃÄÅÆÇÈÉÊËÌÍÎÏÐÑÒÓÔÕÖØÙÚÛÜÝÞ"
LowerAlpha == "abcdefghijklmnopqrstuvwxyzàáâãäåæçèéêëìíîïðñòóôõöøùúûüýþ"
LowerChar(c) ==
  IF \E i \in 1..Len(Upper) : At(Upper, i) = c
  THEN At(LowerAlpha, CHOOSE i \in 1..Len(Upper) : At(Upper, i) = c)
  ELSE c

\* str.lower()
RECURSIVE Lower(_)
Lower(s) == IF s = "" THEN "" ELSE LowerChar(At(s, 1)) \o Lower(Tail(s))

(***************************************************************************)
(* datetime: the proleptic Gregorian calendar of Python's datetime module  *)
(***************************************************************************)
IsLeap(y) == y % 4 = 0 /\ (y % 100 # 0 \/ y % 400 = 0)

DaysInMonth(y, m) ==
  IF m = 2 THEN (IF IsLeap(y) THEN 29 ELSE 28)
  ELSE IF m \in {4, 6, 9, 11} THEN 30 ELSE 31

DaysBeforeYear(y) ==
  (y - 1) * 365 + (y - 1) \div 4 - (y - 1) \div 100 + (y - 1) \div 400

RECURSIVE DaysBeforeMonth(_, _)
DaysBeforeMonth(y, m) ==
  IF m = 1 THEN 0 ELSE DaysBeforeMonth(y, m - 1) + DaysInMonth(y, m - 1)

\* date.toordinal(): 0001-01-01 is day 1.
Ymd2Ord(y, m, d) == DaysBeforeYear(y) + DaysBeforeMonth(y, m) + d

\* The year that holds day n.
YearOfOrdinal(n) ==
  CHOOSE yy \in ((n - 1) \div 366 + 1)..((n - 1) \div 365 + 1) :
    DaysBeforeYear(yy) < n /\ n <= DaysBeforeYear(yy + 1)

\* The month of year y that holds the r-th day of the year.
MonthOfYearDay(y, r) ==
  CHOOSE mm \in 1..12 :
    DaysBeforeMonth(y, mm) < r /\ r <= DaysBeforeMonth(y, mm) + DaysInMonth(y, mm)

YearMonthDay(y, m, r) == [year |-> y, month |-> m, day |-> r - DaysBeforeMonth(y, m)]

\* The r-th day of year y.
YearDay(y, r) == YearMonthDay(y, MonthOfYearDay(y, r), r)

\* Day n, given the year y that holds it.
OrdinalInYear(n, y) == YearDay(y, n - DaysBeforeYear(y))

\* date.fromordinal(n): the year, then the month, holding day n.
Ord2Ymd(n) == OrdinalInYear(n, YearOfOrdinal(n))

MaxOrdinal == Ymd2Ord(9999, 12, 31)

\* A datetime: aware, with utcoffset off seconds and offus microseconds (both
\* of the offset's sign), or naive (off and offus unused).
DateTime(y, mo, d, h, mi, s, us, aware, off, offus) ==
  [year |-> y, month |-> mo, day |-> d, hour |-> h, minute |-> mi,
   second |-> s, microsecond |-> us, aware |-> aware, off |-> off, offus |-> offus]

\* The second of the day dt + timedelta(seconds = secs) falls on, counted from
\* the midnight that starts dt's day (timedelta keeps days and seconds apart).
SecondsFromMidnight(dt, secs) ==
  dt.hour * 3600 + dt.minute * 60 + dt.second + secs

\* Day ord lies outside 0001-01-01..9999-12-31.
OrdinalOverflows(ord) == ord < 1 \/ ord > MaxOrdinal

\* The day dt + timedelta(days = days, seconds = secs) falls on.
PlusOrdinal(dt, days, secs) ==
  Ymd2Ord(dt.year, dt.month, dt.day) + days + SecondsFromMidnight(dt, secs) \div 86400

\* dt + timedelta(days = days, seconds = secs) raises OverflowError outside
\* 0001..9999.
PlusOverflows(dt, days, secs) == OrdinalOverflows(PlusOrdinal(dt, days, secs))

\* dt moved to day ymd and to second rem of the day: the wall clock moves,
\* microsecond and tzinfo are kept.
MovedTo(dt, ymd, rem) ==
  [dt EXCEPT !.year = ymd.year, !.month = ymd.month, !.day = ymd.day,
             !.hour = rem \div 3600, !.minute = (rem % 3600) \div 60,
             !.second = rem % 60]

\* dt + timedelta(days = days, seconds = secs)
Plus(dt, days, secs) ==
  MovedTo(dt, Ord2Ymd(PlusOrdinal(dt, days, secs)), SecondsFromMidnight(dt, secs) % 86400)

\* dt + timedelta(seconds = secs)
AddSeconds(dt, secs) == Plus(dt, 0, secs)

MinutesPerDay == 1440

\* dt + timedelta(minutes = mins) raises OverflowError.
AddMinutesOverflows(dt, mins) ==
  PlusOverflows(dt, mins \div MinutesPerDay, (mins % MinutesPerDay) * 60)

\* dt + timedelta(minutes = mins)
AddMinutes(dt, mins) == Plus(dt, mins \div MinutesPerDay, (mins % MinutesPerDay) * 60)

\* strftime('%Y-%m-%d'): the C library prints the year with the digits it
\* has, year 999 as 999.
StrftimeDate(dt) ==
  Decimal(dt.year) \o "-" \o Pad(dt.month, 2) \o "-" \o Pad(dt.day, 2)

\* The date of isoformat(): "%04d-%02d-%02d".
IsoDate(dt) ==
  Pad(dt.year, 4) \o "-" \o Pad(dt.month, 2) \o "-" \o Pad(dt.day, 2)

\* The utcoffset as isoformat prints it: sign, HH:MM, then :SS when the offset
\* has seconds or microseconds, then .ffffff when it has microseconds.
FormatOffset(off, offus) ==
  LET neg == off < 0 \/ offus < 0
      a == IF off < 0 THEN 0 - off ELSE off
      aus == IF offus < 0 THEN 0 - offus ELSE offus
  IN  (IF neg THEN "-" ELSE "+") \o Pad(a \div 3600, 2) \o ":" \o Pad((a % 3600) \div 60, 2)
      \o (IF a % 60 # 0 \/ aus # 0 THEN ":" \o Pad(a % 60, 2) ELSE "")
      \o (IF aus # 0 THEN "." \o Pad(aus, 6) ELSE "")

\* datetime.isoformat(): fraction only when microsecond # 0, offset only when
\* aware; a zero offset prints as +00:00 whatever sign it was read with.
Isoformat(dt) ==
  IsoDate(dt) \o "T" \o Pad(dt.hour, 2) \o ":" \o Pad(dt.minute, 2)
  \o ":" \o Pad(dt.second, 2)
  \o (IF dt.microsecond # 0 THEN "." \o Pad(dt.microsecond, 6) ELSE "")
  \o (IF dt.aware THEN FormatOffset(dt.off, dt.offus) ELSE "")

(***************************************************************************)
(* datetime.fromisoformat, as CPython 3.11 reads the UTF-8 buffer of a      *)
(* string: positions count bytes from 1, and the byte past the end of the   *)
(* buffer is "" (the NUL that ends it).                                     *)
(***************************************************************************)
\* parse_digits(p, n): the n characters from p are ASCII digits.
DigitsAt(s, p, n) == \A i \in p..(p + n - 1) : At(s, i) \in DigitChars

\* The first place from p on whose character is in set (leftmost), and
\* Len(s) + 1 when there is none.
FirstOf(s, p, set) ==
  LET hits == {i \in p..Len(s) : At(s, i) \in set}
  IN  IF hits = {} THEN Len(s) + 1 ELSE CHOOSE i \in hits : \A j \in hits : i <= j

\* The first place from p on that holds no digit.
DigitsEnd(s, p) ==
  LET stops == {i \in p..(Len(s) + 1) : At(s, i) \notin DigitChars}
  IN  CHOOSE i \in stops : \A j \in stops : i <= j

\* The date of a YYYYWww... text takes 7 or 8 characters: idx is where its
\* digits after Www end (counted from 0).
WeekSeparator(idx) == IF idx < 9 THEN idx ELSE IF idx % 2 = 0 THEN 7 ELSE 8

\* _find_isoformat_datetime_separator: how many characters the date takes
\* (YYYY-MM-DD 10, YYYYMMDD 8, YYYY-Www 8, YYYYWww 7, YYYY-Www-d 10,
\* YYYYWwwd 8), -1 when the text cannot start with a date.
FindIsoformatDatetimeSeparator(s) ==
  IF Len(s) = 7 THEN 7
  ELSE IF At(s, 5) = "-"
  THEN (IF At(s, 6) = "W"
        THEN (IF Len(s) < 8 THEN -1
              ELSE IF Len(s) > 8 /\ At(s, 9) = "-"
              THEN (IF Len(s) = 9 THEN -1
                    ELSE IF Len(s) > 10 /\ At(s, 11) \in DigitChars THEN 8
                    ELSE 10)
              ELSE 8)
        ELSE 10)
  ELSE (IF At(s, 5) = "W" THEN WeekSeparator(DigitsEnd(s, 8) - 1) ELSE 8)

\* weekday(y, 1, 1): Monday is 0.
FirstWeekday(y) == (Ymd2Ord(y, 1, 1) + 6) % 7

\* The Monday that starts ISO week 1 of a year whose first day is day first,
\* a weekday wd.
Week1Monday(first, wd) == first - wd + (IF wd > 3 THEN 7 ELSE 0)

\* iso_week1_monday(y): the ordinal of the Monday that starts ISO week 1.
IsoWeek1Monday(y) == Week1Monday(Ymd2Ord(y, 1, 1), FirstWeekday(y))

\* A year has an ISO week 53 when it starts on a Thursday, or on a Wednesday
\* and is leap.
HasWeek53(wd, leap) == wd = 3 \/ (wd = 2 /\ leap)

\* iso_to_ymd accepts the week and the day.
IsoWeekDayOk(y, w, d) ==
  /\ w \in 1..52 \/ (w = 53 /\ HasWeek53(FirstWeekday(y), IsLeap(y)))
  /\ d \in 1..7

\* The ordinal of day d of ISO week w of ISO year y.
IsoToOrdinal(y, w, d) == IsoWeek1Monday(y) + (w - 1) * 7 + d - 1

NoDate == [ok |-> FALSE, year |-> 0, month |-> 0, day |-> 0]

Date(ymd) == [ok |-> TRUE, year |-> ymd.year, month |-> ymd.month, day |-> ymd.day]

\* The range check of the datetime constructor on year, month and day.
CheckedDate(y, mo, d) ==
  IF y >= 1 /\ mo \in 1..12 /\ d >= 1 /\ d <= DaysInMonth(y, mo)
  THEN [ok |-> TRUE, year |-> y, month |-> mo, day |-> d]
  ELSE NoDate

\* Day n as a date, when the calendar has it.
OrdinalDate(n) == IF OrdinalOverflows(n) THEN NoDate ELSE Date(Ord2Ymd(n))

\* iso_to_ymd(y, w, d)
WeekDate(y, w, d) == IF IsoWeekDayOk(y, w, d) THEN OrdinalDate(IsoToOrdinal(y, w, d)) ELSE NoDate

\* The week date of parse_isoformat_date: W at p, the week after it, then,
\* when the date has more than these characters, the day (after a dash when
\* the year was followed by one: sep = 1).
ParseWeekDate(s, len, y, sep, p) ==
  IF /\ DigitsAt(s, p + 1, 2)
     /\ p + 2 < len => /\ sep = 1 => At(s, p + 3) = "-"
                       /\ DigitsAt(s, p + 3 + sep, 1)
  THEN WeekDate(y, ParseNat(Slice(s, p + 1, p + 2)),
                IF p + 2 < len THEN ParseNat(At(s, p + 3 + sep)) ELSE 1)
  ELSE NoDate

\* The calendar date of parse_isoformat_date: the month at p, then the day.
ParseCalendarDate(s, y, sep, p) ==
  IF /\ DigitsAt(s, p, 2)
     /\ sep = 1 => At(s, p + 2) = "-"
     /\ DigitsAt(s, p + 2 + sep, 2)
  THEN CheckedDate(y, ParseNat(Slice(s, p, p + 1)),
                   ParseNat(Slice(s, p + 2 + sep, p + 3 + sep)))
  ELSE NoDate

\* parse_isoformat_date after the year y: a week date or a calendar date.
ParseDateAfterYear(s, len, y, sep) ==
  IF At(s, 5 + sep) = "W" THEN ParseWeekDate(s, len, y, sep, 5 + sep)
  ELSE ParseCalendarDate(s, y, sep, 5 + sep)

\* parse_isoformat_date on the first len characters, then the range check of
\* the datetime constructor.
ParseIsoformatDate(s, len) ==
  IF len < 0 \/ ~DigitsAt(s, 1, 4) THEN NoDate
  ELSE ParseDateAfterYear(s, len, ParseNat(Slice(s, 1, 4)), IF At(s, 5) = "-" THEN 1 ELSE 0)

\* What parse_hh_mm_ss_ff returns: rv 0 when the text ended with the last
\* component, 1 when a character is left, negative when it gave up.
HhMmSsFf(rv, vals, us) ==
  [rv |-> rv,
   hour |-> IF Len(vals) >= 1 THEN vals[1] ELSE 0,
   minute |-> IF Len(vals) >= 2 THEN vals[2] ELSE 0,
   second |-> IF Len(vals) >= 3 THEN vals[3] ELSE 0,
   microsecond |-> us]

MicrosecondDigits == 6

RECURSIVE PowerOfTen(_)
PowerOfTen(n) == IF n = 0 THEN 1 ELSE 10 * PowerOfTen(n - 1)

\* The fraction of parse_hh_mm_ss_ff, read from p in the text that ends before
\* pend: at most six digits are kept and scaled to microseconds, further
\* digits are skipped.
ParseFraction(s, pend, p, vals) ==
  LET remains == pend - p
      toParse == IF remains >= MicrosecondDigits THEN MicrosecondDigits ELSE remains
      us == ParseNat(Slice(s, p, p + toParse - 1))
            * PowerOfTen(MicrosecondDigits - toParse)
  IN  IF ~DigitsAt(s, p, toParse) THEN HhMmSsFf(-3, vals, 0)
      ELSE HhMmSsFf(IF At(s, DigitsEnd(s, p + toParse)) # "" THEN 1 ELSE 0, vals, us)

\* The loop of parse_hh_mm_ss_ff: component i (0 hour, 1 minute, 2 second) is
\* read at p; sep tells whether the hour was followed by a colon.  After a
\* component the parser stops at the end of the text, steps over a colon (when
\* the hour had one) or a "." or ",", or stays (when the hour had no colon);
\* after a "." or "," and after the third component, what is left is the
\* fraction.
RECURSIVE ParseHhMmSs(_, _, _, _, _, _)
ParseHhMmSs(s, pend, i, p, sep, vals) ==
  LET c == At(s, p + 2)
      hasSeparator == IF i = 0 THEN c = ":" ELSE sep
      vs == Append(vals, ParseNat(Slice(s, p, p + 1)))
      colon == hasSeparator /\ c = ":"
      mark == c \in {".", ","}
      next == IF colon \/ mark THEN p + 3 ELSE p + 2
  IN  IF ~DigitsAt(s, p, 2) THEN HhMmSsFf(-3, vals, 0)
      ELSE IF p + 3 >= pend THEN HhMmSsFf(IF c # "" THEN 1 ELSE 0, vs, 0)
      ELSE IF hasSeparator /\ ~colon /\ ~mark THEN HhMmSsFf(-4, vals, 0)
      ELSE IF mark \/ i = 2 THEN ParseFraction(s, pend, next, vs)
      ELSE ParseHhMmSs(s, pend, i + 1, next, hasSeparator, vs)

\* parse_hh_mm_ss_ff on the characters p..pend-1.
ParseHhMmSsFf(s, p, pend) == ParseHhMmSs(s, pend, 0, p, FALSE, <<>>)

SecondsPerDay == 86400

NoTime ==
  [ok |-> FALSE, hour |-> 0, minute |-> 0, second |-> 0, microsecond |-> 0,
   aware |-> FALSE, off |-> 0, offus |-> 0]

\* The time of day t with the offset off seconds, offus microseconds.
Time(t, aware, off, offus) ==
  [ok |-> TRUE, hour |-> t.hour, minute |-> t.minute, second |-> t.second,
   microsecond |-> t.microsecond, aware |-> aware, off |-> off, offus |-> offus]

\* The timezone of an offset read as z with sign: UTC when it has zero
\* seconds, ValueError when it is not strictly within 24 hours.
TimeWithOffset(t, z, sign, secs) ==
  IF z.rv # 0 \/ secs >= SecondsPerDay THEN NoTime
  ELSE IF secs = 0 THEN Time(t, TRUE, 0, 0)
  ELSE Time(t, TRUE, sign * secs, sign * z.microsecond)

\* parse_isoformat_time once the time t (read up to tzPos) and the offset z
\* (read after tzPos) are parsed, then the range check of the datetime
\* constructor.  What the time parser leaves unread before an offset is
\* ignored.
TimeAndOffset(s, tzPos, t, z) ==
  IF t.rv < 0 \/ t.hour > 23 \/ t.minute > 59 \/ t.second > 59 THEN NoTime
  ELSE IF tzPos = Len(s) + 1 THEN (IF t.rv = 1 THEN NoTime ELSE Time(t, FALSE, 0, 0))
  ELSE IF At(s, tzPos) = "Z"
  THEN (IF At(s, tzPos + 1) # "" THEN NoTime ELSE Time(t, TRUE, 0, 0))
  ELSE TimeWithOffset(t, z, IF At(s, tzPos) = "-" THEN -1 ELSE 1,
                      z.hour * 3600 + z.minute * 60 + z.second)

\* parse_isoformat_time on the text from p, the offset starting at tzPos.
ParseTimeSplitAt(s, p, tzPos) ==
  TimeAndOffset(s, tzPos, ParseHhMmSsFf(s, p, tzPos), ParseHhMmSsFf(s, tzPos + 1, Len(s) + 1))

\* parse_isoformat_time on the text from p: the offset starts at the first
\* Z, + or -.
ParseIsoformatTime(s, p) == ParseTimeSplitAt(s, p, FirstOf(s, p, {"Z", "+", "-"}))

\* fromisoformat's result from the parsed date d and time t.
Parsed(longEnough, d, t) ==
  IF longEnough /\ d.ok /\ t.ok
  THEN [ok |-> TRUE,
        dt |-> DateTime(d.year, d.month, d.day, t.hour, t.minute, t.second,
                        t.microsecond, t.aware, t.off, t.offus)]
  ELSE [ok |-> FALSE, dt |-> DateTime(1, 1, 1, 0, 0, 0, 0, FALSE, 0, 0)]

\* fromisoformat on a buffer whose date takes sepAt bytes: one separator
\* character (two bytes when it is past ASCII), then the time; a text that is
\* only a date is midnight, naive.
ParseIsoformatSplitAt(s, sepAt) ==
  Parsed(Len(s) >= 7, ParseIsoformatDate(s, sepAt),
         IF Len(s) > sepAt
         THEN ParseIsoformatTime(s, IF At(s, sepAt + 1) \in NonAscii THEN sepAt + 3
                                    ELSE sepAt + 2)
         ELSE [NoTime EXCEPT !.ok = TRUE])

\* fromisoformat on the UTF-8 buffer b of its argument.
ParseIsoformatBuffer(b) == ParseIsoformatSplitAt(b, FindIsoformatDatetimeSeparator(b))

\* datetime.fromisoformat(s) as [ok, dt]: ok is FALSE when it raises
\* ValueError.
ParseIsoformat(s) == ParseIsoformatBuffer(Utf8(s))

\* datetime.fromisoformat(s) returns (otherwise it raises ValueError).
FromIsoformatOk(s) == ParseIsoformat(s).ok

\* datetime.fromisoformat(s), for s with FromIsoformatOk(s).
FromIsoformat(s) == ParseIsoformat(s).dt

\* re.search(r"T(\d{2}:\d{2}:\d{2})", s): the first place it matches, 0 for None.
TimeMatchAt(s) ==
  LET hits == {i \in 1..(Len(s) - 8) :
                 /\ At(s, i) = "T"
                 /\ IsDigits(Slice(s, i + 1, i + 2)) /\ At(s, i + 3) = ":"
                 /\ IsDigits(Slice(s, i + 4, i + 5)) /\ At(s, i + 6) = ":"
                 /\ IsDigits(Slice(s, i + 7, i + 8))}
  IN  IF hits = {} THEN 0 ELSE CHOOSE i \in hits : \A j \in hits : i <= j

\* time_match.group(1)
TimeMatchGroup(s) == Slice(s, TimeMatchAt(s) + 1, TimeMatchAt(s) + 8)

(***************************************************************************)
(* app.py: the free-text extractor                                         *)
(***************************************************************************)
\* A call that raised exc instead of returning.
Raised(exc) == [raised |-> exc]
IsRaised(r) == "raised" \in DOMAIN r

\* `s in c` raises TypeError unless c is a str, a list or a dict.
InRaises(c) == ~(IsStr(c) \/ IsList(c) \/ IsDict(c))

\* `s in c` for a str s: a substring of a str, an element of a list, a key of
\* a dict.
In(s, c) ==
  CASE IsStr(c) -> Contains(c.str, s)
    [] IsList(c) -> \E i \in 1..Len(c.list) : c.list[i] = StrV(s)
    [] IsDict(c) -> s \in DOMAIN c.dict
    [] OTHER -> FALSE

\* The placeholder year of validate_and_correct_dates.
PlaceholderYear == "2024"

\* The offset validate_and_correct_dates writes.
CorrectedOffset == "-05:00"

\* validate_and_correct_dates raises (its first test is outside its try).
ValidateRaises(event_data) == InRaises(event_data)

\* validate_and_correct_dates reaches the assignment to event_data["start"]:
\* start is a non-empty str holding "2024" and a time of day.  Every other
\* start (absent, None, a list, an int: TypeError inside the try) is left as
\* it is.
StartRewritten(event_data) ==
  /\ IsDict(event_data)
  /\ "start" \in DOMAIN event_data.dict
  /\ LET start_str == event_data.dict["start"]
     IN  /\ IsStr(start_str)
         /\ Truthy(start_str)
         /\ In(PlaceholderYear, start_str)
         /\ TimeMatchAt(start_str.str) # 0

\* ... and the assignment to event_data["end"], which is nested in it.
EndRewritten(event_data) ==
  /\ StartRewritten(event_data)
  /\ "end" \in DOMAIN event_data.dict
  /\ LET end_str == event_data.dict["end"]
     IN  /\ IsStr(end_str)
         /\ In(PlaceholderYear, end_str)
         /\ TimeMatchAt(end_str.str) # 0

\* f"{corrected_date.strftime('%Y-%m-%d')}T{time_part}-05:00" with
\* corrected_date = today + timedelta(days=1).
CorrectedStamp(today, stamp) ==
  StrftimeDate(AddSeconds(today, 86400)) \o "T" \o TimeMatchGroup(stamp)
  \o CorrectedOffset

\* The end of event_data holds the placeholder year and a time of day.
EndHoldsPlaceholder(event_data) ==
  /\ IsDict(event_data) /\ "end" \in DOMAIN event_data.dict
  /\ IsStr(event_data.dict["end"])
  /\ In(PlaceholderYear, event_data.dict["end"])
  /\ TimeMatchAt(event_data.dict["end"].str) # 0

\* event_data[k] = the corrected stamp of its value, when rewrite holds.
Corrected(event_data, k, rewrite, today) ==
  IF rewrite
  THEN SetItem(event_data, k, StrV(CorrectedStamp(today, event_data.dict[k].str)))
  ELSE event_data

\* now + timedelta(days=1) raises OverflowError: now is on 9999-12-31.
TomorrowOverflows(now) == PlusOverflows(now, 1, 0)

\* validate_and_correct_dates with the correction of end moved out of the
\* branch that corrects start.
ValidateAndCorrectDatesEndAlone(event_data, today) ==
  Corrected(Corrected(event_data, "start",
                      StartRewritten(event_data) /\ ~TomorrowOverflows(today), today),
            "end", EndHoldsPlaceholder(event_data) /\ ~TomorrowOverflows(today), today)

\* validate_and_correct_dates(event_data), datetime.now() returning today,
\* for event_data on which it does not raise; the OverflowError of
\* today + timedelta(days=1) is caught and leaves event_data as it is.
ValidateAndCorrectDates(event_data, today) ==
  Corrected(Corrected(event_data, "start",
                      StartRewritten(event_data) /\ ~TomorrowOverflows(today), today),
            "end", EndRewritten(event_data) /\ ~TomorrowOverflows(today), today)

\* (now + timedelta(days=1)).replace(hour=h, minute=0, second=0).isoformat()
TomorrowAt(now, h) ==
  Isoformat([AddSeconds(now, 86400) EXCEPT !.hour = h, !.minute = 0, !.second = 0])

CancelWords == {"cancel", "delete", "remove"}

\* The branches of extract_event_fallback with "lunch" tested before "meeting".
FallbackBranchLunchFirst(utt) ==
  LET utterance_lower == Lower(utt)
  IN  IF Contains(utterance_lower, "lunch") THEN "lunch"
      ELSE IF Contains(utterance_lower, "meeting") THEN "meeting"
      ELSE IF \E word \in CancelWords : Contains(utterance_lower, word) THEN "cancel"
      ELSE "other"

\* The branch extract_event_fallback takes.
FallbackBranch(utt) ==
  LET utterance_lower == Lower(utt)
  IN  IF Contains(utterance_lower, "meeting") THEN "meeting"
      ELSE IF Contains(utterance_lower, "lunch") THEN "lunch"
      ELSE IF \E word \in CancelWords : Contains(utterance_lower, word) THEN "cancel"
      ELSE "other"

\* extract_event_fallback raises OverflowError: a canned timestamp is asked
\* for on 9999-12-31.
ExtractEventFallbackRaises(utt, now1, now2) ==
  /\ FallbackBranch(utt) \in {"meeting", "lunch"}
  /\ TomorrowOverflows(now1) \/ TomorrowOverflows(now2)

\* extract_event_fallback(utterance); its two reads of datetime.now() return
\* now1 (for start) and now2 (for end).
ExtractEventFallback(utt, now1, now2) ==
  CASE ExtractEventFallbackRaises(utt, now1, now2) -> Raised("OverflowError")
    [] FallbackBranch(utt) = "meeting" ->
         Obj(<< <<"intent", StrV("CreateEvent")>>, <<"title", StrV("Meeting")>>,
                <<"start", StrV(TomorrowAt(now1, 14))>>,
                <<"end", StrV(TomorrowAt(now2, 15))>> >>)
    [] FallbackBranch(utt) = "lunch" ->
         Obj(<< <<"intent", StrV("CreateEvent")>>, <<"title", StrV("Lunch Meeting")>>,
                <<"start", StrV(TomorrowAt(now1, 12))>>,
                <<"end", StrV(TomorrowAt(now2, 13))>> >>)
    [] FallbackBranch(utt) = "cancel" -> Obj(<< <<"intent", StrV("CancelEvent")>> >>)
    [] OTHER -> Obj(<< <<"intent", StrV("QueryFreeTime")>> >>)

\* What the request to the local model ends in: requests.post raises
\* (connection refused, timeout), response.json() raises, the envelope has no
\* "response" key, json.loads of its text raises, or json.loads returns payload.
OllamaFailures ==
  {"connection_error", "timeout", "envelope_not_json", "no_response_key",
   "text_not_json"}

\* The except branch of app.extract_event is taken.
OllamaFallsBack(out) == out.kind \in OllamaFailures \/ ValidateRaises(out.payload)

\* app.extract_event(utterance): reads holds what the calls of datetime.now()
\* after the model's reply return.  What the fallback raises is raised inside
\* the except branch and leaves extract_event.
ExtractEventOllama(utt, out, reads) ==
  IF OllamaFallsBack(out)
  THEN ExtractEventFallback(utt, reads[1], reads[2])
  ELSE ValidateAndCorrectDates(out.payload, reads[1])

\* The calls of datetime.now() app.extract_event makes after the model's reply.
OllamaClockReads(utt, out, reads) ==
  IF OllamaFallsBack(out)
  THEN (IF FallbackBranch(utt) \in {"meeting", "lunch"}
        THEN (IF TomorrowOverflows(reads[1]) THEN <<reads[1]>> ELSE reads)
        ELSE <<>>)
  ELSE (IF StartRewritten(out.payload) THEN <<reads[1]>> ELSE <<>>)

(***************************************************************************)
(* NLU_with_OpenAI.py: the schema-constrained extractor and the mapper     *)
(***************************************************************************)
\* client.chat.completions.create raises: no connection, or a non-2xx status.
OpenAIFailures == {"connection_error", "status_error"}

\* NLU_with_OpenAI.extract_event(utterance): nothing catches what the request
\* raises.
ExtractEventOpenAI(out) ==
  CASE out.kind \in OpenAIFailures -> Raised(out.kind)
    [] out.kind = "no_tool_call" -> Obj(<< <<"intent", StrV("QueryFreeTime")>> >>)
    [] out.kind = "bad_arguments" -> Obj(<< <<"intent", StrV("QueryFreeTime")>> >>)
    [] out.kind = "ok" -> out.payload

DefaultTimezone == "America/New_York"
NoTitle == "(No title)"

\* The literal int() reads in stripped text b: an optional sign, then digits
\* with single underscores between them.
IntLiteralOk(b) ==
  LET body == IF At(b, 1) \in {"+", "-"} THEN Tail(b) ELSE b
  IN  /\ body # ""
      /\ \A i \in 1..Len(body) : At(body, i) \in DigitChars \cup {"_"}
      /\ At(body, 1) # "_" /\ At(body, Len(body)) # "_"
      /\ ~Contains(body, "__")

\* int(duration) raises: TypeError for None, a list or a dict, ValueError for
\* a str that is no integer literal.
IntRaises(v) ==
  ~(IsInt(v) \/ IsBool(v) \/ (IsStr(v) /\ IntLiteralOk(IntStrip(v.str))))

\* int(duration): an int as it is, True 1 and False 0, a str by its literal.
IntOf(v) ==
  LET b == IntStrip(v.str)
      body == IF At(b, 1) \in {"+", "-"} THEN Tail(b) ELSE b
  IN  CASE IsInt(v) -> v.int
        [] IsBool(v) -> IF v.bool THEN 1 ELSE 0
        [] IsStr(v) -> (IF At(b, 1) = "-" THEN -1 ELSE 1) * ParseNat(WithoutUnderscores(body))

\* The try block of to_gcal_event raises (and end becomes None).
EndFromDurationRaises(start, duration) ==
  \/ ~IsStr(start)
  \/ ~FromIsoformatOk(start.str)
  \/ IntRaises(duration)
  \/ AddMinutesOverflows(FromIsoformat(start.str), IntOf(duration))

\* end_dt.isoformat() with end_dt = start_dt + timedelta(minutes=int(duration))
EndFromDuration(start, duration) ==
  StrV(Isoformat(AddMinutes(FromIsoformat(start.str), IntOf(duration))))

\* The value of end after the "compute end from duration" step.
ResolvedEnd(nlu_d) ==
  LET start == Get(nlu_d, "start", None)
      end == Get(nlu_d, "end", None)
      duration == Get(nlu_d, "duration_minutes", None)
  IN  IF Truthy(start) /\ ~Truthy(end) /\ Truthy(duration)
      THEN (IF EndFromDurationRaises(start, duration) THEN None
            ELSE EndFromDuration(start, duration))
      ELSE end

\* `for a in v` raises TypeError: v is an int or a bool (None is never walked,
\* being false).
IterRaises(v) == IsInt(v) \/ IsBool(v) \/ IsNone(v)

\* The elements a comprehension `for a in v` walks: a list's elements, a str's
\* characters, a dict's keys in the order they were set.
Elements(v) ==
  CASE IsList(v) -> v.list
    [] IsStr(v) -> [i \in 1..Len(v.str) |-> StrV(At(v.str, i))]
    [] IsDict(v) -> [i \in 1..Len(v.order) |-> StrV(v.order[i])]

\* The attendee objects built last to first.
AttendeeObjectsReversed(attendees) ==
  [i \in 1..Len(Elements(attendees)) |->
     Obj(<< <<"email", Elements(attendees)[Len(Elements(attendees)) + 1 - i]>> >>)]

\* [{"email": a} for a in attendees]
AttendeeObjects(attendees) ==
  [i \in 1..Len(Elements(attendees)) |-> Obj(<< <<"email", Elements(attendees)[i]>> >>)]

\* to_gcal_event without the try around the computation of end.
ToGcalEventRaisesUncaught(n) ==
  \/ ~IsDict(n)
  \/ /\ Truthy(Get(n.dict, "attendees", None))
     /\ IterRaises(Get(n.dict, "attendees", None))
  \/ /\ Truthy(Get(n.dict, "start", None))
     /\ ~Truthy(Get(n.dict, "end", None))
     /\ Truthy(Get(n.dict, "duration_minutes", None))
     /\ EndFromDurationRaises(Get(n.dict, "start", None),
                              Get(n.dict, "duration_minutes", None))

\* to_gcal_event raises: nlu has no get, or attendees is true and not iterable.
ToGcalEventRaises(n) ==
  \/ ~IsDict(n)
  \/ /\ Truthy(Get(n.dict, "attendees", None))
     /\ IterRaises(Get(n.dict, "attendees", None))

\* {k: v for k, v in event.items() if v is not None}
StripNone(v) ==
  LET keep == SelectSeq(v.order, LAMBDA k : ~IsNone(v.dict[k]))
  IN  [dict |-> [k \in {keep[i] : i \in 1..Len(keep)} |-> v.dict[k]], order |-> keep]

\* {"dateTime": v, "timeZone": tz} for a true v, None otherwise.
Stamp(v, tz) ==
  IF Truthy(v) THEN Obj(<< <<"dateTime", v>>, <<"timeZone", tz>> >>) ELSE None

\* The body to_gcal_event builds from the slots d, the zone tz and the
\* resolved end, in the order its keys are set.
EventBody(d, tz, end) ==
  Obj(<< <<"summary", Get(d, "title", StrV(NoTitle))>>,
         <<"start", Stamp(Get(d, "start", None), tz)>>,
         <<"end", Stamp(end, tz)>> >>
      \o (IF Truthy(Get(d, "location", None))
          THEN << <<"location", d["location"]>> >> ELSE <<>>)
      \o (IF Truthy(Get(d, "attendees", None))
          THEN << <<"attendees", ListV(AttendeeObjects(d["attendees"]))>> >> ELSE <<>>)
      \o (IF Truthy(Get(d, "recurrence", None))
          THEN << <<"recurrence", ListV(<<d["recurrence"]>>)>> >> ELSE <<>>)
      \o (IF Truthy(Get(d, "reminders", None))
          THEN << <<"reminders", Obj(<< <<"useDefault", BoolV(FALSE)>>,
                                      <<"overrides", d["reminders"]>> >>)>> >>
          ELSE <<>>))

\* to_gcal_event(nlu), for nlu on which it does not raise.
ToGcalEvent(n) ==
  StripNone(EventBody(n.dict, Get(n.dict, "timezone", StrV(DefaultTimezone)),
                      ResolvedEnd(n.dict)))

(***************************************************************************)
(* Inputs: utterances, clock readings, and what the model replies          *)
(***************************************************************************)
Utterances ==
  {"Schedule a MEETING with Bob", "team lunch on Friday", "lunch meeting tomorrow",
   "cancel my meeting", "Cancel lunch", "please delete it", "remove that event",
   "what am I doing today"}

Naive(y, mo, d, h, mi, s, us) == DateTime(y, mo, d, h, mi, s, us, FALSE, 0, 0)

\* What datetime.now() returns on two reads in a row: the same instant, or
\* instants on the two sides of a midnight.
ClockReads ==
  {<<Naive(2026, 10, 29, 9, 30, 15, 0), Naive(2026, 10, 29, 9, 30, 15, 0)>>,
   <<Naive(2024, 2, 28, 22, 10, 5, 250000), Naive(2024, 2, 28, 22, 10, 5, 250000)>>,
   <<Naive(2025, 12, 31, 23, 59, 59, 999990), Naive(2025, 12, 31, 23, 59, 59, 999990)>>,
   <<Naive(2025, 12, 31, 23, 59, 59, 999990), Naive(2026, 1, 1, 0, 0, 0, 7)>>}

\* The longest attendees list that a reply of the model carries.
MaxAttendees == 2

Emails == {"maya@ex.com", "leo@ex.com"}

AttendeeLists ==
  UNION {{ListV([i \in 1..n |-> StrV(f[i])]) : f \in [1..n -> Emails]} : n \in 0..MaxAttendees}

\* The key/value pairs that set key k to one of vals, and no pair at all.
Opt(k, vals) == {<<>>} \cup {<< <<k, v>> >> : v \in vals}

StartValues ==
  {None, StrV(""),
   StrV("2025-09-03T16:00:00-04:00"), StrV("2024-02-28T23:30:00+05:30"),
   StrV("2025-12-31T23:59:30-00:00"), StrV("2024-06-01T10:00-04:00"),
   StrV("2025-09-03T16:00:00"), StrV("tomorrow at 4pm"),
   StrV("2024-13-01T09:00:00-05:00"),
   StrV("2024-03-10T09:00:00Z"), StrV("2024-05-05T08:15:00.5-05:00"),
   StrV("20250903T160000+0530")}

EndValues ==
  {None, StrV("2025-09-03T17:00:00-04:00"), StrV("2024-02-29T00:30:00+05:30"),
   StrV("2024-06-01 11:00")}

DurationValues == {IntV(0), IntV(45), IntV(1500), StrV(" 45 ")}

\* Replies that vary when the event is.
TimingReplies ==
  {Obj(<< <<"intent", StrV("CreateEvent")>>, <<"title", StrV("Standup")>> >>
       \o s \o e \o d) :
     s \in Opt("start", StartValues), e \in Opt("end", EndValues),
     d \in Opt("duration_minutes", DurationValues)}

\* Replies that vary what the event is.
ContentReplies ==
  {Obj(<< <<"intent", StrV("CreateEvent")>>,
          <<"start", StrV("2025-09-03T16:00:00-04:00")>>,
          <<"duration_minutes", IntV(45)>> >> \o ti \o lo \o rc \o rm \o tz) :
     ti \in Opt("title", {None, StrV(""), StrV("Sprint planning")}),
     lo \in Opt("location", {StrV(""), StrV("Room 4")}),
     rc \in Opt("recurrence", {StrV("RRULE:FREQ=WEEKLY")}),
     rm \in Opt("reminders",
                {ListV(<<>>),
                 ListV(<<Obj(<< <<"method", StrV("popup")>>, <<"minutes", IntV(10)>> >>)>>)}),
     tz \in Opt("timezone", {StrV("Europe/Paris")})}

\* Replies that vary who is invited.
AttendeeReplies ==
  {Obj(<< <<"intent", StrV("AddInvitees")>>, <<"title", StrV("Sprint planning")>> >>
       \o at) :
     at \in Opt("attendees", AttendeeLists \cup {None})}

\* Replies that are JSON but no slot set: no intent, an intent outside the
\* enum, fields of another type.
OddReplies ==
  {EmptyDict,
   Obj(<< <<"intent", StrV("BookFlight")>> >>),
   Obj(<< <<"intent", None>> >>),
   Obj(<< <<"title", StrV("Standup")>>, <<"start", StrV("2024-02-28T23:30:00+05:30")>> >>),
   Obj(<< <<"intent", StrV("MoveEvent")>>, <<"start", IntV(2024)>> >>),
   Obj(<< <<"intent", StrV("MoveEvent")>>, <<"start", ListV(<<StrV("2024")>>)>> >>),
   Obj(<< <<"intent", StrV("CreateEvent")>>,
          <<"start", StrV("2024-02-28T23:30:00+05:30")>>, <<"end", IntV(2024)>> >>),
   Obj(<< <<"intent", StrV("AddInvitees")>>, <<"attendees", IntV(3)>> >>),
   Obj(<< <<"intent", StrV("AddInvitees")>>, <<"attendees", BoolV(TRUE)>> >>),
   Obj(<< <<"intent", StrV("AddInvitees")>>, <<"attendees", StrV("leo")>> >>),
   Obj(<< <<"intent", StrV("AddInvitees")>>,
          <<"attendees", Obj(<< <<"maya@ex.com", StrV("required")>>,
                                <<"leo@ex.com", StrV("optional")>> >>)>> >>),
   Obj(<< <<"intent", StrV("MoveEvent")>>, <<"start", StrV("2025-W36-3T16:00:00-04:00")>>,
          <<"duration_minutes", StrV("-4_5")>> >>),
   Obj(<< <<"intent", StrV("MoveEvent")>>,
          <<"start", StrV("2025-09-03T16:00:00,25+05:30:15")>>,
          <<"duration_minutes", BoolV(TRUE)>> >>)}

\* What json.loads returns for the model's text: a dict, or any other JSON
\* value.
Payloads ==
  TimingReplies \cup ContentReplies \cup AttendeeReplies \cup OddReplies
  \cup {None, IntV(5), BoolV(TRUE), StrV("start at noon"), ListV(<<>>),
        ListV(<<StrV("start")>>)}

OllamaOutcomes ==
  {[kind |-> k] : k \in OllamaFailures} \cup {[kind |-> "ok", payload |-> p] : p \in Payloads}

OpenAIOutcomes ==
  {[kind |-> k] : k \in OpenAIFailures \cup {"no_tool_call", "bad_arguments"}}
  \cup {[kind |-> "ok", payload |-> p] : p \in Payloads}

(***************************************************************************)
(* The pipeline: one request at a time is extracted, and by the script     *)
(* of NLU_with_OpenAI.py then mapped                                       *)
(***************************************************************************)
Unset == [unset |-> TRUE]

Init ==
  /\ pc = "idle"
  /\ strategy = "none"
  /\ utterance = ""
  /\ outcome = Unset
  /\ clock = <<>>
  /\ nlu = Unset
  /\ event = Unset

\* app.extract_event(utterance) runs to its return, or raises.
ExtractOllama ==
  /\ pc = "idle"
  /\ \E utt \in Utterances, out \in OllamaOutcomes, reads \in ClockReads :
       /\ strategy' = "ollama"
       /\ utterance' = utt
       /\ outcome' = out
       /\ clock' = OllamaClockReads(utt, out, reads)
       /\ nlu' = ExtractEventOllama(utt, out, reads)
       /\ pc' = IF IsRaised(ExtractEventOllama(utt, out, reads)) THEN "raised"
                ELSE "extracted"
  /\ event' = Unset

\* NLU_with_OpenAI.extract_event(utterance) runs to its return, or raises.
ExtractOpenAI ==
  /\ pc = "idle"
  /\ \E utt \in Utterances, out \in OpenAIOutcomes :
       /\ strategy' = "openai"
       /\ utterance' = utt
       /\ outcome' = out
       /\ nlu' = ExtractEventOpenAI(out)
       /\ pc' = IF IsRaised(ExtractEventOpenAI(out)) THEN "raised" ELSE "extracted"
  /\ clock' = <<>>
  /\ event' = Unset

\* to_gcal_event(nlu) on what NLU_with_OpenAI.extract_event returned: the
\* script maps, the service of app.py answers with the slot set as it is.
MapEvent ==
  /\ pc = "extracted"
  /\ strategy = "openai"
  /\ event' = IF ToGcalEventRaises(nlu) THEN Raised("mapper") ELSE ToGcalEvent(nlu)
  /\ pc' = IF ToGcalEventRaises(nlu) THEN "raised" ELSE "mapped"
  /\ UNCHANGED <<strategy, utterance, outcome, clock, nlu>>

\* The request is over (the script has mapped or died, the service has
\* answered with what app.extract_event returned); the next one starts from
\* nothing.
NextRequest ==
  /\ \/ pc \in {"mapped", "raised"}
     \/ pc = "extracted" /\ strategy = "ollama"
  /\ pc' = "idle"
  /\ strategy' = "none"
  /\ utterance' = ""
  /\ outcome' = Unset
  /\ clock' = <<>>
  /\ nlu' = Unset
  /\ event' = Unset

Next == ExtractOllama \/ ExtractOpenAI \/ MapEvent \/ NextRequest

Spec == Init /\ [][Next]_vars

(***************************************************************************)
(* Vocabulary of the properties                                            *)
(***************************************************************************)
Intents == {"CreateEvent", "MoveEvent", "CancelEvent", "AddInvitees", "QueryFreeTime"}

InertSlots == Obj(<< <<"intent", StrV("QueryFreeTime")>> >>)

\* v is a timestamp that carries a UTC offset.
OffsetQualified(v) ==
  IsStr(v) /\ FromIsoformatOk(v.str) /\ FromIsoformat(v.str).aware

\* Key k of dict value n is there and not null.
Has(n, k) == k \in DOMAIN n.dict /\ ~IsNone(n.dict[k])

\* The extractor of the request has returned (or raised).
Extracted(s) == strategy = s /\ pc # "idle"

\* The mapper has run on what the extractor returned.
Mapped == pc = "mapped"

\* Text s holds the date one day after clock reading now, then T, then hh:00:00.
OneDayAheadAt(s, now, hh) ==
  /\ IsStr(s)
  /\ Slice(s.str, 1, 10) = IsoDate(AddSeconds(now, 86400))
  /\ Slice(s.str, 11, 19) = "T" \o hh \o ":00:00"

\* nlu is the canned slot set of a fallback category.
IsCanned(title, h1, h2) ==
  /\ IsDict(nlu) /\ DOMAIN nlu.dict = {"intent", "title", "start", "end"}
  /\ nlu.dict["intent"] = StrV("CreateEvent")
  /\ nlu.dict["title"] = StrV(title)
  /\ Len(clock) = 2
  /\ OneDayAheadAt(nlu.dict["start"], clock[1], h1)
  /\ OneDayAheadAt(nlu.dict["end"], clock[2], h2)

SaysMeeting == Contains(Lower(utterance), "meeting")
SaysLunch == Contains(Lower(utterance), "lunch")
SaysCancel == \E w \in {"cancel", "delete", "remove"} : Contains(Lower(utterance), w)

\* The call to the local model failed: transport, timeout or decode.
OllamaFailed == Extracted("ollama") /\ outcome.kind \in OllamaFailures

(***************************************************************************)
(* C1: in the schema-constrained extractor every outcome of the model      *)
(* request that is a failure (the request raises, the response has no tool *)
(* call, the arguments are no JSON) returns exactly {intent: QueryFreeTime}*)
(* and does not raise.  The code lets what the request raises escape.      *)
(***************************************************************************)
C1_FailureReturnsInert ==
  (Extracted("openai") /\ outcome.kind # "ok") => nlu = InertSlots

(***************************************************************************)
(* C2 as stated: after a failed model call the free-text extractor returns *)
(* the meeting slot set for every utterance containing "meeting", the      *)
(* lunch slot set for every utterance containing "lunch", CancelEvent for  *)
(* every utterance containing a cancellation verb, and {intent:            *)
(* QueryFreeTime} for an utterance with no keyword.                        *)
(***************************************************************************)
C2_EveryKeywordDecides ==
  OllamaFailed =>
    /\ SaysMeeting => IsCanned("Meeting", "14", "15")
    /\ SaysLunch => IsCanned("Lunch Meeting", "12", "13")
    /\ SaysCancel => nlu = Obj(<< <<"intent", StrV("CancelEvent")>> >>)
    /\ ~(SaysMeeting \/ SaysLunch \/ SaysCancel) => nlu = InertSlots

(***************************************************************************)
(* C2 amended: after a failed model call the free-text extractor returns   *)
(* the rule-based matcher's result, the keywords being tried in the order  *)
(* "meeting", "lunch", cancellation verb: the first that occurs in the     *)
(* lowercased utterance decides, and with none the result is {intent:      *)
(* QueryFreeTime}.  The canned start and end are one day after the clock   *)
(* reading each was computed from, at 14:00/15:00 (meeting) and            *)
(* 12:00/13:00 (lunch).                                                    *)
(***************************************************************************)
C2_FirstKeywordDecides ==
  OllamaFailed =>
    /\ SaysMeeting => IsCanned("Meeting", "14", "15")
    /\ (~SaysMeeting /\ SaysLunch) => IsCanned("Lunch Meeting", "12", "13")
    /\ (~SaysMeeting /\ ~SaysLunch /\ SaysCancel) =>
         nlu = Obj(<< <<"intent", StrV("CancelEvent")>> >>)
    /\ ~(SaysMeeting \/ SaysLunch \/ SaysCancel) => nlu = InertSlots

\* A failed call on an utterance with two keywords was answered by the first.
C2_Witness ==
  /\ OllamaFailed
  /\ SaysMeeting /\ SaysCancel
  /\ IsCanned("Meeting", "14", "15")

(***************************************************************************)
(* C3: a slot set with a parseable offset-qualified start, no end and      *)
(* duration_minutes = d >= 0 (d = 0 included) is mapped to a body whose    *)
(* end is start + d minutes with the offset of start.  The code tests the  *)
(* duration for truth, so d = 0 yields no end.                             *)
(***************************************************************************)
C3_EndIsStartPlusDuration ==
  (/\ Mapped
   /\ Has(nlu, "start") /\ OffsetQualified(nlu.dict["start"])
   /\ ~Has(nlu, "end")
   /\ Has(nlu, "duration_minutes") /\ IsInt(nlu.dict["duration_minutes"])
   /\ nlu.dict["duration_minutes"].int >= 0)
  => /\ "end" \in DOMAIN event.dict
     /\ IsDict(event.dict["end"])
     /\ LET e == event.dict["end"].dict["dateTime"]
        IN  /\ IsStr(e) /\ FromIsoformatOk(e.str)
            /\ FromIsoformat(e.str) =
                 AddSeconds(FromIsoformat(nlu.dict["start"].str),
                            nlu.dict["duration_minutes"].int * 60)

(***************************************************************************)
(* C4: every key of the mapped event body has a value that is neither null *)
(* nor empty; a null or empty title never yields a null or empty summary.  *)
(* The code copies an empty title into summary.                            *)
(***************************************************************************)
C4_NoEmptyValueInBody ==
  Mapped => \A k \in DOMAIN event.dict : Truthy(event.dict[k])

(***************************************************************************)
(* C5: with attendees absent (no key, or null) or an empty sequence the    *)
(* mapped body has no attendees key; with attendees [a1, ..., an], n > 0,  *)
(* the body's attendees is [{email: a1}, ..., {email: an}]: same length,   *)
(* same order.                                                             *)
(***************************************************************************)
C5_AttendeesReshaped ==
  Mapped =>
    LET a == Get(nlu.dict, "attendees", None)
    IN  /\ (IsNone(a) \/ a = ListV(<<>>)) => "attendees" \notin DOMAIN event.dict
        /\ (IsList(a) /\ a.list # <<>>) =>
             /\ "attendees" \in DOMAIN event.dict
             /\ IsList(event.dict["attendees"])
             /\ Len(event.dict["attendees"].list) = Len(a.list)
             /\ \A i \in 1..Len(a.list) :
                  event.dict["attendees"].list[i] = Obj(<< <<"email", a.list[i]>> >>)

\* Two different attendees, in this order, were mapped.
C5_Witness ==
  /\ Mapped
  /\ Has(nlu, "attendees")
  /\ nlu.dict["attendees"] = ListV(<<StrV("maya@ex.com"), StrV("leo@ex.com")>>)
  /\ "attendees" \in DOMAIN event.dict

(***************************************************************************)
(* C6: along every path (model success, date correction, fallback, then    *)
(* mapping) a start or end present in the slot set an extractor returns,   *)
(* and a start.dateTime or end.dateTime present in the mapped body, is a   *)
(* timestamp with an explicit UTC offset.  The fallback formats a naive    *)
(* datetime.now(), and a reply of the model is passed on unchecked.        *)
(***************************************************************************)
C6_TimestampsCarryOffset ==
  /\ (pc \in {"extracted", "mapped"} /\ IsDict(nlu)) =>
       \A k \in {"start", "end"} : Has(nlu, k) => OffsetQualified(nlu.dict[k])
  /\ Mapped =>
       \A k \in {"start", "end"} :
         k \in DOMAIN event.dict => OffsetQualified(event.dict[k].dict["dateTime"])

\* Timestamp after is before moved to the day after the clock reading, its
\* time of day and its offset kept.
C7_Corrected(before, after) ==
  /\ Len(clock) >= 1
  /\ IsStr(after) /\ FromIsoformatOk(after.str)
  /\ LET b == FromIsoformat(before.str)
         a == FromIsoformat(after.str)
         t == AddSeconds(clock[1], 86400)
     IN  /\ <<a.year, a.month, a.day>> = <<t.year, t.month, t.day>>
         /\ <<a.hour, a.minute, a.second, a.microsecond>>
              = <<b.hour, b.minute, b.second, b.microsecond>>
         /\ a.aware = b.aware /\ a.off = b.off /\ a.offus = b.offus

(***************************************************************************)
(* C7: a reply whose start is in the placeholder year 2024 comes back from *)
(* the free-text extractor with start on the day after the current date,   *)
(* its time of day and UTC offset unchanged; likewise end when present.    *)
(* The code writes the offset -05:00 whatever offset was extracted, and    *)
(* corrects nothing when the time has no seconds.                          *)
(***************************************************************************)
C7_PlaceholderYearCorrected ==
  (/\ Extracted("ollama") /\ outcome.kind = "ok" /\ IsDict(outcome.payload)
   /\ Has(outcome.payload, "start")
   /\ OffsetQualified(outcome.payload.dict["start"])
   /\ FromIsoformat(outcome.payload.dict["start"].str).year = ParseNat(PlaceholderYear))
  => /\ IsDict(nlu) /\ Has(nlu, "start")
     /\ C7_Corrected(outcome.payload.dict["start"], nlu.dict["start"])
     /\ (Has(outcome.payload, "end") /\ OffsetQualified(outcome.payload.dict["end"])) =>
          /\ Has(nlu, "end")
          /\ C7_Corrected(outcome.payload.dict["end"], nlu.dict["end"])

\* A slot set: a dict whose fields are null or of their declared type.
C8_TextKeys == {"intent", "title", "start", "end", "timezone", "location", "recurrence"}

C8_SlotSet(n) ==
  /\ IsDict(n)
  /\ \A k \in DOMAIN n.dict :
       \/ IsNone(n.dict[k])
       \/ k \in C8_TextKeys /\ IsStr(n.dict[k])
       \/ k = "duration_minutes" /\ IsInt(n.dict[k]) /\ n.dict[k].int >= 0
       \/ /\ k \in {"attendees", "reminders"}
          /\ IsList(n.dict[k])
          /\ k = "attendees" => \A i \in 1..Len(n.dict[k].list) : IsStr(n.dict[k].list[i])

(***************************************************************************)
(* C8: the mapper returns a body, without raising, for every slot set      *)
(* (a dict whose fields are null or of their declared type); and when      *)
(* start is present, end is absent, duration_minutes is present and start  *)
(* does not parse as a timestamp, the body holds start as given (paired    *)
(* with the timezone) and no end.                                          *)
(***************************************************************************)
C8_MapperTotal ==
  (event # Unset /\ C8_SlotSet(nlu)) =>
    /\ ~IsRaised(event) /\ IsDict(event)
    /\ (/\ Has(nlu, "start") /\ nlu.dict["start"] # StrV("")
        /\ ~FromIsoformatOk(nlu.dict["start"].str)
        /\ ~Has(nlu, "end")
        /\ Has(nlu, "duration_minutes"))
       => /\ "start" \in DOMAIN event.dict
          /\ event.dict["start"] =
               Obj(<< <<"dateTime", nlu.dict["start"]>>,
                      <<"timeZone", Get(nlu.dict, "timezone", StrV("America/New_York"))>> >>)
          /\ "end" \notin DOMAIN event.dict

\* A start that is no timestamp, with a duration and no end, was mapped.
C8_Witness ==
  /\ Mapped /\ C8_SlotSet(nlu)
  /\ Has(nlu, "start") /\ nlu.dict["start"] = StrV("tomorrow at 4pm")
  /\ ~Has(nlu, "end")
  /\ Has(nlu, "duration_minutes") /\ nlu.dict["duration_minutes"] = IntV(45)
  /\ "start" \in DOMAIN event.dict

(***************************************************************************)
(* C9: whatever the model replies, what either extractor returns is a      *)
(* mapping with the key intent and a value among the five intents.  Both   *)
(* extractors return what json.loads gave, unchecked, and the              *)
(* schema-constrained one raises when the request does.                    *)
(***************************************************************************)
C9_ResultIsSlotSet ==
  pc # "idle" =>
    /\ IsDict(nlu)
    /\ Has(nlu, "intent")
    /\ IsStr(nlu.dict["intent"])
    /\ nlu.dict["intent"].str \in Intents

\* The start of reply p holds the placeholder year.
C10_StartHoldsPlaceholder(p) ==
  /\ IsDict(p) /\ "start" \in DOMAIN p.dict
  /\ ~InRaises(p.dict["start"]) /\ In("2024", p.dict["start"])

(***************************************************************************)
(* C10: validate_and_correct_dates returns its argument unchanged, an end  *)
(* holding 2024 included, when there is no start or start does not hold    *)
(* the placeholder year 2024 (so end is rewritten only in a call that      *)
(* rewrites start); and whenever it returns, the keys are those it was     *)
(* given and every field other than start and end is unchanged.            *)
(***************************************************************************)
C10_OnlyDatesRewritten ==
  (Extracted("ollama") /\ outcome.kind = "ok" /\ ~InRaises(outcome.payload)) =>
    /\ ~C10_StartHoldsPlaceholder(outcome.payload) => nlu = outcome.payload
    /\ IsDict(outcome.payload) =>
         /\ IsDict(nlu) /\ nlu.order = outcome.payload.order
         /\ DOMAIN nlu.dict = DOMAIN outcome.payload.dict
         /\ \A k \in DOMAIN nlu.dict \ {"start", "end"} :
              nlu.dict[k] = outcome.payload.dict[k]

\* A reply whose end holds 2024 and whose start does not came back as it was.
C10_Witness ==
  /\ Extracted("ollama") /\ outcome.kind = "ok" /\ IsDict(outcome.payload)
  /\ Has(outcome.payload, "start") /\ IsStr(outcome.payload.dict["start"])
  /\ ~Contains(outcome.payload.dict["start"].str, "2024")
  /\ Has(outcome.payload, "end") /\ IsStr(outcome.payload.dict["end"])
  /\ Contains(outcome.payload.dict["end"].str, "2024")
  /\ TimeMatchAt(outcome.payload.dict["end"].str) # 0
  /\ Has(outcome.payload, "title")
  /\ nlu = outcome.payload
====
